---- MODULE Spec2Model ----
(***************************************************************************)
(* Model of package logger (src/ZapLog.go): the process-wide SugarLogger,  *)
(* InitLogger/ensureDir, and the gin middleware HttpLogger with its        *)
(* request capture, recording response writer and log emission.            *)
(*                                                                         *)
(* Byte strings (bodies, raw query strings, header values) are sequences   *)
(* of lexemes: each element stands for one lexical unit of the text, e.g.  *)
(* "a" inside a JSON body stands for the quoted string "a".                *)
(***************************************************************************)
EXTENDS Integers, Sequences, FiniteSets, TLC

\* ------------------------------------------------------------------ bounds
NumReqs == 2       \* concurrent request cycles
MaxPairs == 2      \* key/value pairs in a generated JSON object or form body
MaxQuery == 2      \* key/value pairs in a generated raw query string
MaxWrites == 2     \* writes a handler makes through c.Writer
MaxInits == 2      \* calls of InitLogger

Reqs == 1..NumReqs

\* ------------------------------------------------------- sequence helpers
RECURSIVE IndexFrom(_, _, _)
\* first index >= i at which s holds a lexeme of set seps, or 0
IndexFrom(s, seps, i) ==
    IF i > Len(s) THEN 0
    ELSE IF s[i] \in seps THEN i
    ELSE IndexFrom(s, seps, i + 1)

\* the text before the first lexeme of seps (the whole text if there is none)
Before(s, seps) ==
    LET i == IndexFrom(s, seps, 1)
    IN  IF i = 0 THEN s ELSE SubSeq(s, 1, i - 1)

\* the text after the first lexeme of seps (empty if there is none)
After(s, seps) ==
    LET i == IndexFrom(s, seps, 1)
    IN  IF i = 0 THEN <<>> ELSE SubSeq(s, i + 1, Len(s))

RECURSIVE Without(_, _)
Without(s, drop) ==
    IF s = <<>> THEN <<>>
    ELSE IF Head(s) \in drop THEN Without(Tail(s), drop)
    ELSE <<Head(s)>> \o Without(Tail(s), drop)

RECURSIVE SeqsUpTo(_, _)
\* all sequences over S of length at most n
SeqsUpTo(S, n) ==
    IF n = 0 THEN {<<>>}
    ELSE LET shorter == SeqsUpTo(S, n - 1)
         IN  shorter \cup {Append(s, x) : s \in shorter, x \in S}

\* ------------------------------------------------------------ content types
CTJson == <<"application/json">>
CTForm == <<"application/x-www-form-urlencoded">>
CTMultipart == <<"multipart/form-data">>
CTOctet == <<"application/octet-stream">>
CTAudio == <<"audio/mpeg">>
CTHtml == <<"text/html">>
CTPlain == <<"text/plain">>

\* gin's Context.ContentType(): the Content-Type header cut at the first
\* space or semicolon
ContentType(header) == Before(header, {" ", ";"})

\* strings.SplitN(h, ";", 2)[0]
RespCT(header) == Before(header, {";"})

\* ------------------------------------------------------------------ JSON
JsonKeys == {"a", "b"}
JsonScalars == {"1", "2"}
KeyOrder == <<"a", "b">>

IsMember(s) == Len(s) = 3 /\ s[1] \in JsonKeys /\ s[2] = ":" /\ s[3] \in JsonScalars
IsElement(s) == Len(s) = 1 /\ s[1] \in JsonScalars

RECURSIVE IsMemberList(_)
\* s is a comma-separated list of key:value members
IsMemberList(s) ==
    LET i == IndexFrom(s, {","}, 1)
    IN  IF i = 0 THEN IsMember(s)
        ELSE IsMember(SubSeq(s, 1, i - 1)) /\ IsMemberList(SubSeq(s, i + 1, Len(s)))

RECURSIVE IsElementList(_)
\* s is a comma-separated list of scalars
IsElementList(s) ==
    LET i == IndexFrom(s, {","}, 1)
    IN  IF i = 0 THEN IsElement(s)
        ELSE IsElement(SubSeq(s, 1, i - 1)) /\ IsElementList(SubSeq(s, i + 1, Len(s)))

Inner(s) == SubSeq(s, 2, Len(s) - 1)

\* insignificant whitespace between lexemes is skipped by the scanner
Significant(text) == Without(text, {" "})

IsJsonObject(t) ==
    /\ Len(t) >= 2 /\ t[1] = "{" /\ t[Len(t)] = "}"
    /\ (Inner(t) = <<>> \/ IsMemberList(Inner(t)))

IsJsonArray(t) ==
    /\ Len(t) >= 2 /\ t[1] = "[" /\ t[Len(t)] = "]"
    /\ (Inner(t) = <<>> \/ IsElementList(Inner(t)))

IsJsonNull(t) == t = <<"null">>
IsJsonScalar(t) == Len(t) = 1 /\ t[1] \in JsonScalars

\* encoding/json's checkValid, on the JSON fragment of the model
ValidJson(text) ==
    LET t == Significant(text)
    IN  IsJsonObject(t) \/ IsJsonArray(t) \/ IsJsonNull(t) \/ IsJsonScalar(t)

RECURSIVE Members(_, _)
\* the decoded object: a later member replaces an earlier one of the same key
Members(s, m) ==
    IF s = <<>> THEN m
    ELSE LET one == Before(s, {","})
             rest == After(s, {","})
             k == one[1]
             v == one[3]
         IN  Members(rest, [x \in DOMAIN m \cup {k} |-> IF x = k THEN v ELSE m[x]])

EmptyMap == [x \in {} |-> ""]

\* json.Unmarshal(bodyBytes, &m) with m a map[string]interface{}:
\* err is nil for an object and for null (which leaves m nil)
Unmarshal(text) ==
    LET t == Significant(text)
    IN  IF IsJsonObject(t) THEN [err |-> FALSE, isNil |-> FALSE, m |-> Members(Inner(t), EmptyMap)]
        ELSE IF IsJsonNull(t) THEN [err |-> FALSE, isNil |-> TRUE, m |-> EmptyMap]
        ELSE [err |-> TRUE, isNil |-> TRUE, m |-> EmptyMap]

RECURSIVE MarshalMembers(_, _)
MarshalMembers(m, i) ==
    IF i > Len(KeyOrder) THEN <<>>
    ELSE LET k == KeyOrder[i]
             rest == MarshalMembers(m, i + 1)
         IN  IF k \notin DOMAIN m THEN rest
             ELSE <<k, ":", m[k]>> \o (IF rest = <<>> THEN <<>> ELSE <<",">> \o rest)

\* json.Marshal(m): keys sorted, no whitespace; a nil map encodes as null
Marshal(d) ==
    IF d.isNil THEN <<"null">>
    ELSE <<"{">> \o MarshalMembers(d.m, 1) \o <<"}">>

\* ------------------------------------------------------------- url.Values
NoValues == [k \in {} |-> <<>>]

AddValue(m, k, v) ==
    [x \in DOMAIN m \cup {k} |->
        IF x = k THEN (IF k \in DOMAIN m THEN Append(m[k], v) ELSE <<v>>) ELSE m[x]]

RECURSIVE ParseInto(_, _)
\* url.ParseQuery: split at "&", skip empty segments, cut each at the first "="
ParseInto(q, m) ==
    IF q = <<>> THEN m
    ELSE LET seg == Before(q, {"&"})
             rest == After(q, {"&"})
         IN  IF seg = <<>> THEN ParseInto(rest, m)
             ELSE ParseInto(rest, AddValue(m, Before(seg, {"="}), After(seg, {"="})))

ParseQuery(q) == ParseInto(q, NoValues)

RECURSIVE CopyValues(_, _, _)
\* net/http copyValues(dst, src): append src's values, key by key
CopyValues(dst, src, keys) ==
    IF keys = {} THEN dst
    ELSE LET k == CHOOSE x \in keys : TRUE
             ext == [x \in DOMAIN dst \cup {k} |->
                        IF x = k THEN (IF k \in DOMAIN dst THEN dst[k] \o src[k] ELSE src[k])
                        ELSE dst[x]]
         IN  CopyValues(ext, src, keys \ {k})

\* net/http Request.ParseForm on a request whose Form is not yet parsed:
\* the body is read (and left at end-of-stream) only for POST, PUT and PATCH
\* with media type application/x-www-form-urlencoded; the query values
\* follow the body's values
ParseForm(rq, stream) ==
    LET readsBody == /\ rq.method \in {"POST", "PUT", "PATCH"}
                     /\ Significant(RespCT(rq.header)) = CTForm
        postForm == IF readsBody THEN ParseQuery(stream) ELSE NoValues
        newValues == ParseQuery(rq.query)
    IN  [form |-> IF DOMAIN postForm # {}
                  THEN CopyValues(postForm, newValues, DOMAIN newValues)
                  ELSE newValues,
         stream |-> IF readsBody THEN <<>> ELSE stream]

\* ------------------------------------------------- HttpLogger: the request
\* reqParams is an interface{} value: nil, a string, url.Values, or one of
\* the two placeholder strings
NilParams == [kind |-> "nil"]
StringParams(text) == [kind |-> "string", text |-> text]
ValuesParams(v) == [kind |-> "values", values |-> v]
BinaryData == [kind |-> "binary"]
Unsupported(ct) == [kind |-> "unsupported", ct |-> ct]

\* JsonBranch without the restore of line 93: the body stays consumed
JsonBranchNoRestore(rq, stream) ==
    LET d == Unmarshal(stream)
    IN  [params |-> IF Len(stream) > 0 /\ ~d.err
                    THEN StringParams(Marshal(d))
                    ELSE NilParams,
         stream |-> <<>>]

\* JsonBranch that logs the bytes read instead of their re-encoding
JsonBranchRaw(rq, stream) ==
    LET d == Unmarshal(stream)
    IN  [params |-> IF Len(stream) > 0 /\ ~d.err
                    THEN StringParams(stream)
                    ELSE NilParams,
         stream |-> stream]

\* case "application/json": read the whole body, normalise it through
\* Unmarshal/Marshal when it is not empty, put the bytes read back
JsonBranch(rq, stream) ==
    LET bodyBytes == stream
        d == Unmarshal(bodyBytes)
    IN  [params |-> IF Len(bodyBytes) > 0 /\ ~d.err
                    THEN StringParams(Marshal(d))
                    ELSE NilParams,
         stream |-> bodyBytes]

\* case "application/x-www-form-urlencoded", "multipart/form-data"
FormBranch(rq, stream) ==
    LET parsed == ParseForm(rq, stream)
    IN  [params |-> ValuesParams(parsed.form), stream |-> parsed.stream]

\* OctetBranch that reads the body and logs it
OctetBranchReads(rq, stream) ==
    [params |-> StringParams(stream), stream |-> <<>>]

\* case "application/octet-stream"
OctetBranch(rq, stream) ==
    [params |-> BinaryData, stream |-> stream]

\* DefaultBranch without the query capture
DefaultBranchNoQuery(rq, stream) ==
    [params |-> Unsupported(ContentType(rq.header)), stream |-> stream]

\* default: the query values of a GET that has some, else the placeholder
DefaultBranch(rq, stream) ==
    [params |-> IF rq.method = "GET" /\ DOMAIN ParseQuery(rq.query) # {}
                THEN ValuesParams(ParseQuery(rq.query))
                ELSE Unsupported(ContentType(rq.header)),
     stream |-> stream]

\* switch c.ContentType()
CaptureRequest(rq, stream) ==
    LET ct == ContentType(rq.header)
    IN  IF ct = CTJson THEN JsonBranch(rq, stream)
        ELSE IF ct \in {CTForm, CTMultipart} THEN FormBranch(rq, stream)
        ELSE IF ct = CTOctet THEN OctetBranch(rq, stream)
        ELSE DefaultBranch(rq, stream)

\* ------------------------------------------------ HttpLogger: the response
\* ResponseData whose default case logs the recorded body
ResponseDataDefaultBody(header, body) ==
    LET respCT == RespCT(header)
    IN  IF respCT \in {CTAudio, CTHtml, CTOctet} THEN [kind |-> "binary"]
        ELSE [kind |-> "body", text |-> body]

\* switch respCT
ResponseData(header, body) ==
    LET respCT == RespCT(header)
    IN  IF respCT = CTJson THEN [kind |-> "body", text |-> body]
        ELSE IF respCT \in {CTForm, CTMultipart} THEN [kind |-> "body", text |-> body]
        ELSE IF respCT \in {CTAudio, CTHtml, CTOctet} THEN [kind |-> "binary"]
        ELSE [kind |-> "unsupported", ct |-> respCT]

\* recorder.Body.Len(), the response size of the log entry
ResponseSize(rec) == Len(rec.Body)

\* the recording writer: a buffer beside the real writer
NewResponseRecorder == [Body |-> <<>>]

\* Write mirrors the bytes to the real writer and keeps a copy
RecorderWrite(rec, real, b) ==
    [rec |-> [rec EXCEPT !.Body = @ \o b], real |-> real \o b]

\* ---------------------------------------------------------- InitLogger
DirStates == {"exists", "absent", "blocked", "denied"}

\* ensureDir: MkdirAll runs only when Stat reports that the directory does
\* not exist; "blocked" is a missing directory that cannot be created,
\* "denied" a Stat failure of another kind
ensureDir(dir) == IF dir = "blocked" THEN "error" ELSE "nil"

\* ------------------------------------------------------------- the inputs
RECURSIVE JoinPairs(_, _, _)
\* the pairs of l written key, mid, value and separated by sep
JoinPairs(l, mid, sep) ==
    IF l = <<>> THEN <<>>
    ELSE <<l[1][1]>> \o mid \o <<l[1][2]>>
         \o (IF Len(l) > 1 THEN sep \o JoinPairs(Tail(l), mid, sep) ELSE <<>>)

BodyPairs == {<<"a", "1">>, <<"a", "2">>, <<"b", "1">>}
QueryPairs == {<<"a", "1">>, <<"b", "2">>}

ObjectBodies ==
    {<<"{">> \o JoinPairs(l, <<":">>, <<",">>) \o <<"}">> : l \in SeqsUpTo(BodyPairs, MaxPairs)}
SpacedBodies ==
    {<<" ", "{", " ">> \o JoinPairs(l, <<":", " ">>, <<",", " ">>) \o <<"}">> :
        l \in SeqsUpTo(BodyPairs, MaxPairs)}
TruncatedBodies == {SubSeq(o, 1, Len(o) - 1) : o \in ObjectBodies}
FormBodies == {JoinPairs(l, <<"=">>, <<"&">>) : l \in SeqsUpTo(BodyPairs, MaxPairs)}
OtherBodies ==
    {<<>>, <<"null">>, <<"1">>, <<"[", "1", ",", "2", "]">>, <<"{", "}", "}">>}

Bodies == ObjectBodies \cup SpacedBodies \cup TruncatedBodies \cup FormBodies \cup OtherBodies

Queries ==
    {JoinPairs(l, <<"=">>, <<"&">>) : l \in SeqsUpTo(QueryPairs, MaxQuery)} \cup {<<"&">>}

Methods == {"GET", "POST"}

ReqHeaders ==
    { <<>>,
      CTJson,
      CTJson \o <<";", " ", "charset=utf-8">>,
      CTForm,
      CTMultipart \o <<";", " ", "boundary=x">>,
      CTOctet,
      CTPlain }

RespHeaders ==
    { CTJson \o <<";", " ", "charset=utf-8">>,
      CTForm,
      CTHtml \o <<";", " ", "charset=utf-8">>,
      CTOctet,
      CTPlain \o <<";", " ", "charset=utf-8">>,
      CTJson \o <<" ", ";", "charset=utf-8">> }

Chunks == {<<"x">>, <<"y", "z">>}

\* what a handler does, in order: read the request body, set the response's
\* Content-Type, write a chunk
ReadOp == [op |-> "read"]
HeaderOp(h) == [op |-> "header", header |-> h]
WriteOp(b) == [op |-> "write", bytes |-> b]

Scripts ==
    {rd \o hd \o wr :
        rd \in {<<>>, <<ReadOp>>},
        hd \in {<<>>} \cup {<<HeaderOp(h)>> : h \in RespHeaders},
        wr \in SeqsUpTo({WriteOp(b) : b \in Chunks}, MaxWrites)}

FewScripts ==
    { <<ReadOp, HeaderOp(CTJson \o <<";", " ", "charset=utf-8">>), WriteOp(<<"x">>)>> }

Request(m, h, b, q, s) ==
    [method |-> m, header |-> h, body |-> b, query |-> q, script |-> s]

\* the requests of a cycle handled alone: every method, header, body and
\* query under one handler, and a few requests under every handler
Requests ==
    {Request(m, h, b, q, s) :
        m \in Methods, h \in ReqHeaders, b \in Bodies, q \in Queries, s \in FewScripts}
    \cup
    {Request(m, h, <<"a", "=", "1">>, <<>>, s) :
        m \in Methods, h \in {<<>>, CTJson, CTForm}, s \in Scripts}

\* the requests of cycles that run side by side
SmallRequests ==
    { Request("GET", <<>>, <<>>, <<"a", "=", "1">>,
              <<HeaderOp(CTJson \o <<";", " ", "charset=utf-8">>), WriteOp(<<"x">>)>>),
      Request("POST", CTJson, <<"{", "a", ":", "1", "}">>, <<>>,
              <<ReadOp, HeaderOp(CTPlain \o <<";", " ", "charset=utf-8">>), WriteOp(<<"y", "z">>)>>),
      Request("POST", CTForm, <<"a", "=", "1">>, <<>>, <<ReadOp>>) }

NoRequest == Request("NONE", <<>>, <<>>, <<>>, <<>>)

Scenarios ==
    {[r \in Reqs |-> IF r = 1 THEN rq ELSE NoRequest] : rq \in Requests}
        \cup [Reqs -> SmallRequests]

\* ---------------------------------------------------------------- state
VARIABLES
    SugarLogger,   \* the global *zap.SugaredLogger: "nil" or "logger"
    init,          \* the InitLogger calls so far and how the last one ended
    errorLines,    \* lines written by SugarLogger.Errorf
    req,           \* the request of each cycle
    pc,            \* where each cycle's HttpLogger invocation stands
    step,          \* the handler's next operation
    stream,        \* the unread bytes of c.Request.Body
    reqParams,     \* the captured request parameters
    writer,        \* c.Writer: "real" or "recorder"
    recorder,      \* the recording writer of the cycle
    real,          \* the bytes that reached the real response writer
    respHeader,    \* the response's Content-Type header ("" when absent)
    seen,          \* what the handler read from c.Request.Body, if it did
    entries        \* the log entries the cycle emitted through Infof

vars == <<SugarLogger, init, errorLines, req, pc, step, stream, reqParams, writer,
          recorder, real, respHeader, seen, entries>>

logVars == <<SugarLogger, init, errorLines>>
cycleVars == <<pc, step, stream, reqParams, writer, recorder, real, respHeader, seen, entries>>

NotRead == [read |-> FALSE, data |-> <<>>]

Init ==
    /\ SugarLogger = "nil"
    /\ init = [calls |-> 0, last |-> "none", dirError |-> FALSE]
    /\ errorLines = 0
    /\ req \in Scenarios
    /\ pc = [r \in Reqs |-> "new"]
    /\ step = [r \in Reqs |-> 1]
    /\ stream = [r \in Reqs |-> req[r].body]
    /\ reqParams = [r \in Reqs |-> NilParams]
    /\ writer = [r \in Reqs |-> "real"]
    /\ recorder = [r \in Reqs |-> NewResponseRecorder]
    /\ real = [r \in Reqs |-> <<>>]
    /\ respHeader = [r \in Reqs |-> <<>>]
    /\ seen = [r \in Reqs |-> NotRead]
    /\ entries = [r \in Reqs |-> <<>>]

\* InitLogger(filename, ...) with the log directory in state dir: a failure
\* of ensureDir is reported through SugarLogger, which is nil until the first
\* call has assigned it, and a method call on the nil logger panics
InitLogger(dir) ==
    /\ init.calls < MaxInits
    /\ LET failed == ensureDir(dir) = "error"
           panics == failed /\ SugarLogger = "nil"
       IN  /\ init' = [calls |-> init.calls + 1,
                       last |-> IF panics THEN "panic" ELSE "returned",
                       dirError |-> failed]
           /\ errorLines' = IF failed /\ ~panics THEN errorLines + 1 ELSE errorLines
           /\ SugarLogger' = IF panics THEN SugarLogger ELSE "logger"
    /\ UNCHANGED <<req, cycleVars>>

\* HttpLogger up to c.Next(): capture the request, substitute the recorder
Capture(r) ==
    /\ pc[r] = "new"
    /\ req[r] # NoRequest
    /\ LET got == CaptureRequest(req[r], stream[r])
       IN  /\ reqParams' = [reqParams EXCEPT ![r] = got.params]
           /\ stream' = [stream EXCEPT ![r] = got.stream]
    /\ recorder' = [recorder EXCEPT ![r] = NewResponseRecorder]
    /\ writer' = [writer EXCEPT ![r] = "recorder"]
    /\ pc' = [pc EXCEPT ![r] = "handler"]
    /\ UNCHANGED <<logVars, req, step, real, respHeader, seen, entries>>

\* the handler's next operation
NextOp(r) ==
    IF pc[r] = "handler" /\ step[r] <= Len(req[r].script)
    THEN req[r].script[step[r]]
    ELSE [op |-> "none"]

\* the handler reads c.Request.Body to end-of-stream
HandlerRead(r) ==
    /\ NextOp(r).op = "read"
    /\ seen' = [seen EXCEPT ![r] = [read |-> TRUE, data |-> stream[r]]]
    /\ stream' = [stream EXCEPT ![r] = <<>>]
    /\ step' = [step EXCEPT ![r] = @ + 1]
    /\ UNCHANGED <<logVars, req, pc, reqParams, writer, recorder, real, respHeader, entries>>

\* the handler sets the response's Content-Type
HandlerSetHeader(r) ==
    /\ NextOp(r).op = "header"
    /\ respHeader' = [respHeader EXCEPT ![r] = NextOp(r).header]
    /\ step' = [step EXCEPT ![r] = @ + 1]
    /\ UNCHANGED <<logVars, req, pc, stream, reqParams, writer, recorder, real, seen, entries>>

\* the handler writes a chunk through c.Writer
HandlerWrite(r) ==
    /\ NextOp(r).op = "write"
    /\ LET b == NextOp(r).bytes
           w == IF writer[r] = "recorder"
                THEN RecorderWrite(recorder[r], real[r], b)
                ELSE [rec |-> recorder[r], real |-> real[r] \o b]
       IN  /\ recorder' = [recorder EXCEPT ![r] = w.rec]
           /\ real' = [real EXCEPT ![r] = w.real]
    /\ step' = [step EXCEPT ![r] = @ + 1]
    /\ UNCHANGED <<logVars, req, pc, stream, reqParams, writer, respHeader, seen, entries>>

\* the handler is through and c.Next() returns
HandlerReturn(r) ==
    /\ pc[r] = "handler"
    /\ step[r] > Len(req[r].script)
    /\ pc' = [pc EXCEPT ![r] = "returned"]
    /\ UNCHANGED <<logVars, req, step, stream, reqParams, writer, recorder, real, respHeader, seen, entries>>

\* LogEntry whose size is the length of the logged response data
LogEntrySizeOfData(r) ==
    LET data == ResponseData(respHeader[r], recorder[r].Body)
    IN  [requestId |-> r,
         reqParams |-> reqParams[r],
         responseData |-> data,
         size |-> IF data.kind = "body" THEN Len(data.text) ELSE 0]

\* the log entry of SugarLogger.Infof("%s\n%s", requestLog, responseLog)
LogEntry(r) ==
    [requestId |-> r,
     reqParams |-> reqParams[r],
     responseData |-> ResponseData(respHeader[r], recorder[r].Body),
     size |-> ResponseSize(recorder[r])]

\* HttpLogger after c.Next(): classify the response and emit the entry;
\* Infof on the nil logger panics
LogResponse(r) ==
    /\ pc[r] = "returned"
    /\ IF SugarLogger = "nil"
       THEN /\ pc' = [pc EXCEPT ![r] = "panic"]
            /\ UNCHANGED entries
       ELSE /\ pc' = [pc EXCEPT ![r] = "done"]
            /\ entries' = [entries EXCEPT ![r] = Append(@, LogEntry(r))]
    /\ UNCHANGED <<logVars, req, step, stream, reqParams, writer, recorder, real, respHeader, seen>>

Next ==
    \/ \E dir \in DirStates : InitLogger(dir)
    \/ \E r \in Reqs : Capture(r)
    \/ \E r \in Reqs : HandlerRead(r)
    \/ \E r \in Reqs : HandlerSetHeader(r)
    \/ \E r \in Reqs : HandlerWrite(r)
    \/ \E r \in Reqs : HandlerReturn(r)
    \/ \E r \in Reqs : LogResponse(r)

Spec == Init /\ [][Next]_vars

\* ------------------------------------------------------------ properties
\* the body the handler reads, or can still read, is the request's body
BodyIntact(r) ==
    IF seen[r].read THEN seen[r].data = req[r].body ELSE stream[r] = req[r].body

RECURSIVE WrittenBy(_, _)
\* the bytes of the first n operations of a script that are writes
WrittenBy(script, n) ==
    IF n = 0 THEN <<>>
    ELSE WrittenBy(script, n - 1)
         \o (IF script[n].op = "write" THEN script[n].bytes ELSE <<>>)

\* the bytes the handler has written through c.Writer so far
Written(r) == WrittenBy(req[r].script, step[r] - 1)

\* q holds the segment key=value between two "&" (or the ends of q)
HasSegment(q, i, j) ==
    /\ 1 <= i /\ i <= j /\ j <= Len(q)
    /\ i = 1 \/ q[i - 1] = "&"
    /\ j = Len(q) \/ q[j + 1] = "&"
    /\ \A n \in i..j : q[n] # "&"

\* the captured value p holds every key of the raw query q with its value
HoldsQuery(p, q) ==
    \A i, j \in 1..Len(q) :
        HasSegment(q, i, j) =>
            LET seg == SubSeq(q, i, j)
                k == Before(seg, {"="})
                v == After(seg, {"="})
            IN  /\ p.kind = "values"
                /\ k \in DOMAIN p.values
                /\ \E n \in 1..Len(p.values[k]) : p.values[k][n] = v

\* text is the compact encoding of the object (or null) that body holds:
\* no whitespace, every key once and in order, the value of its last member
Normalised(text, body) ==
    LET t == Significant(body)
    IN  IF IsJsonNull(t) THEN text = <<"null">>
        ELSE /\ IsJsonObject(text)
             /\ \A n \in 1..Len(text) : text[n] # " "
             /\ \A n \in 1..Len(text) :
                    (n > 2 /\ text[n] \in JsonKeys) =>
                        \E a, b \in 1..Len(KeyOrder) :
                            a < b /\ KeyOrder[a] = text[n - 4] /\ KeyOrder[b] = text[n]
             /\ \A k \in JsonKeys :
                    LET last == {n \in 1..Len(t) :
                                    t[n] = k /\ \A x \in (n + 1)..Len(t) : t[x] # k}
                    IN  IF last = {} THEN \A n \in 1..Len(text) : text[n] # k
                        ELSE \A n \in last :
                                \E x \in 1..Len(text) : text[x] = k /\ text[x + 2] = t[n + 2]

\* C1: a request of content type application/json reaches the handler with
\* its body intact: what the handler reads from c.Request.Body is the body
\* the client sent, whether or not the normalisation succeeded
C1_JsonBodyRestored ==
    \A r \in Reqs :
        (pc[r] # "new" /\ ContentType(req[r].header) = CTJson) => BodyIntact(r)

C1_Witness ==
    \E r \in Reqs :
        /\ ContentType(req[r].header) = CTJson
        /\ seen[r].read
        /\ seen[r].data # <<>>
        /\ reqParams[r].kind = "string"
        /\ reqParams[r].text # seen[r].data

\* C2: whatever the content type, the body the handler reads is the body the
\* client sent
C2_EveryBodyRestored ==
    \A r \in Reqs : pc[r] # "new" => BodyIntact(r)

\* C3: no cycle ends in a panic of the interceptor's logging step
C3_LoggingNeverPanics ==
    \A r \in Reqs : pc[r] # "panic"

\* C4: an InitLogger call whose ensureDir failed still returns and leaves
\* SugarLogger set
C4_InitSurvivesDirError ==
    init.dirError => (init.last = "returned" /\ SugarLogger = "logger")

\* C5: a cycle that is through HttpLogger has emitted exactly one entry, and
\* a cycle that is not yet past its handler has emitted none
C5_OneEntryAfterHandler ==
    \A r \in Reqs :
        /\ pc[r] \in {"done", "panic"} => Len(entries[r]) = 1
        /\ pc[r] \in {"new", "handler", "returned"} => Len(entries[r]) = 0

\* C6: the recorder's buffer holds the bytes forwarded to the real writer,
\* in order, and the size of the log entry is the number of bytes the
\* handler wrote through the recording writer
C6_RecorderMirrorsWrites ==
    \A r \in Reqs :
        /\ pc[r] # "new" => (recorder[r].Body = real[r] /\ real[r] = Written(r))
        /\ \A n \in 1..Len(entries[r]) : entries[r][n].size = Len(Written(r))

C6_Witness ==
    \E r \in Reqs :
        /\ Len(entries[r]) = 1
        /\ entries[r][1].size = Len(real[r])
        /\ Len(real[r]) > 1
        /\ entries[r][1].responseData.kind # "body"

\* C7 as stated: a GET with a query and no body has every query key and
\* value captured, whatever its Content-Type
C7_QueryCapturedAnyType ==
    \A r \in Reqs :
        (pc[r] # "new" /\ req[r].method = "GET" /\ req[r].body = <<>>)
            => HoldsQuery(reqParams[r], req[r].query)

\* C7 amended: a GET with a query and no body whose content type is neither
\* application/json nor application/octet-stream has every query key and
\* value captured
C7_QueryCaptured ==
    \A r \in Reqs :
        (/\ pc[r] # "new" /\ req[r].method = "GET" /\ req[r].body = <<>>
         /\ ContentType(req[r].header) \notin {CTJson, CTOctet})
            => HoldsQuery(reqParams[r], req[r].query)

C7_Witness ==
    \E r \in Reqs :
        /\ pc[r] # "new" /\ req[r].method = "GET" /\ req[r].body = <<>>
        /\ ContentType(req[r].header) = CTPlain
        /\ reqParams[r].kind = "values"
        /\ DOMAIN reqParams[r].values = {<<"a">>, <<"b">>}

\* C8 as stated: a non-empty JSON body that is valid JSON is captured as its
\* re-encoding, any other body of a JSON request as no value
C8_ValidJsonCaptured ==
    \A r \in Reqs :
        (pc[r] # "new" /\ ContentType(req[r].header) = CTJson) =>
            IF req[r].body # <<>> /\ ValidJson(req[r].body)
            THEN reqParams[r].kind = "string"
            ELSE reqParams[r].kind = "nil"

\* C8 amended: a non-empty JSON body that holds an object (or null) is
\* captured as its normalised re-encoding; an empty body, an unparseable one
\* and valid JSON of another kind are captured as no value; either way the
\* cycle goes on to the handler
C8_JsonObjectCaptured ==
    \A r \in Reqs :
        (pc[r] # "new" /\ ContentType(req[r].header) = CTJson) =>
            LET t == Significant(req[r].body)
            IN  IF IsJsonObject(t) \/ IsJsonNull(t)
                THEN /\ reqParams[r].kind = "string"
                     /\ Normalised(reqParams[r].text, req[r].body)
                ELSE reqParams[r].kind = "nil"

C8_Witness ==
    \E r \in Reqs :
        /\ pc[r] = "handler"
        /\ ContentType(req[r].header) = CTJson
        /\ reqParams[r].kind = "string"
        /\ reqParams[r].text = <<"{", "a", ":", "2", ",", "b", ":", "1", "}">>
        /\ Significant(req[r].body) # reqParams[r].text

\* C9: a response whose content type (the header up to its first ";") is in
\* neither the logged set nor the binary set is logged as the placeholder
\* naming that content type, not as its body
C9_UnsupportedResponse ==
    \A r \in Reqs :
        \A n \in 1..Len(entries[r]) :
            LET ct == Before(respHeader[r], {";"})
            IN  ct \notin {CTJson, CTForm, CTMultipart, CTAudio, CTHtml, CTOctet} =>
                    /\ entries[r][n].responseData.kind = "unsupported"
                    /\ entries[r][n].responseData.ct = ct

C9_Witness ==
    \E r \in Reqs :
        /\ Len(entries[r]) = 1
        /\ respHeader[r] = <<>>
        /\ recorder[r].Body # <<>>
        /\ entries[r][1].responseData = [kind |-> "unsupported", ct |-> <<>>]

\* C10: an application/octet-stream request is captured as the binary
\* placeholder and its body is left for the handler
C10_OctetPlaceholder ==
    \A r \in Reqs :
        (pc[r] # "new" /\ ContentType(req[r].header) = CTOctet) =>
            /\ reqParams[r] = BinaryData
            /\ BodyIntact(r)

C10_Witness ==
    \E r \in Reqs :
        /\ pc[r] = "handler"
        /\ ContentType(req[r].header) = CTOctet
        /\ req[r].body # <<>>
        /\ ~seen[r].read
        /\ stream[r] = req[r].body
        /\ reqParams[r] = BinaryData

====
